---- MODULE Spec2Model ----
(***************************************************************************)
(* The thingzi-climate controller node (src/node/climate.js) as a state     *)
(* machine.  Temperatures are integers in tenths of a degree, times are     *)
(* integers in abstract clock units (moment() values), and JavaScript       *)
(* values that may be null, NaN or a string are tagged records.             *)
(***************************************************************************)
EXTENDS Integers, Sequences, FiniteSets, TLC

VARIABLES
    cfg,        \* the node's configuration (climate.js 28-73), fixed at construction
    node,       \* the node's mutable fields (climate.js 25-26, 75-81, 307-335)
    now,        \* the value moment() returns
    nextTick,   \* when the setInterval timer of initUpdateLoop is next due
    scenario,   \* observer: progress of the command sequence "mode heat, then temperature 16.0"
    ret         \* observer: the direct method call that has just been made, if any

vars == <<cfg, node, now, nextTick, scenario, ret>>

----------------------------------------------------------------------------
(* JavaScript values *)

Num(v) == [t |-> "num", v |-> v]
\* a string whose text starts with the number v, such as "16.0" or "16.0C"
NumStr(v) == [t |-> "numstr", v |-> v]
\* a string with no numeric prefix, such as "abc"
Text == [t |-> "text", v |-> 0]
Null == [t |-> "null", v |-> 0]
NaN == [t |-> "nan", v |-> 0]
Undefined == [t |-> "undefined", v |-> 0]
\* msg.hasOwnProperty(field) is false
NoField == [t |-> "absent", v |-> 0]

parseFloat(x) == IF x.t \in {"num", "numstr"} THEN Num(x.v) ELSE NaN

isNaN(x) == x.t # "num"

\* relational operators on numbers: any comparison with NaN is false
Lt(a, b) == a.t = "num" /\ b.t = "num" /\ a.v < b.v
Gt(a, b) == a.t = "num" /\ b.t = "num" /\ a.v > b.v
Le(a, b) == a.t = "num" /\ b.t = "num" /\ a.v <= b.v
Ge(a, b) == a.t = "num" /\ b.t = "num" /\ a.v >= b.v
Plus(a, k) == IF a.t = "num" THEN Num(a.v + k) ELSE NaN
Minus(a, k) == IF a.t = "num" THEN Num(a.v - k) ELSE NaN
AbsDiff(a, b) ==
    IF a.t = "num" /\ b.t = "num"
    THEN Num(IF a.v >= b.v THEN a.v - b.v ELSE b.v - a.v)
    ELSE NaN

----------------------------------------------------------------------------
(* Bounds of the model *)

\* the clock runs from Epoch to Epoch + MaxTime
MaxTime == 5
\* an inbound message carries at most this many of the six fields
MaxFields == 1
\* calculateAction is tried on temperatures 0 .. MaxCalcTemp and tolerances 0 .. MaxCalcTolerance
MaxCalcTemp == 4
MaxCalcTolerance == 2

(* Configuration values (tenths of a degree, clock units) *)

Tolerance == 2
MinTemp == 50
MaxTemp == 250
DefaultHeatSetpoint == 180
DefaultCoolSetpoint == 220
KeepAliveMs == 3
CycleDelayMs == 1
BoostDurationMs == 2
TempValidMs == 2
SwapDelayMs == 2

\* moment() at construction: milliseconds since 1970, far more than keepAliveMs
Epoch == 10

ClimateTypes == {"heat", "cool", "both", "manual"}

Config(type, adv) ==
    [climateType |-> type,
     tolerance |-> Tolerance,
     minTemp |-> MinTemp,
     maxTemp |-> MaxTemp,
     defaultHeatSetpoint |-> Num(DefaultHeatSetpoint),
     defaultCoolSetpoint |-> Num(DefaultCoolSetpoint),
     keepAliveMs |-> KeepAliveMs,
     cycleDelayMs |-> CycleDelayMs,
     boostDurationMs |-> BoostDurationMs,
     tempValidMs |-> TempValidMs,
     swapDelayMs |-> SwapDelayMs,
     advertise |-> adv,
     broker |-> TRUE,
     topic |-> TRUE]

Configs == {Config(type, adv) : type \in ClimateTypes, adv \in BOOLEAN}

hasHeating == cfg.climateType \in {"both", "heat", "manual"}
hasCooling == cfg.climateType \in {"both", "cool", "manual"}
hasSetpoint == cfg.climateType # "manual"

defaultMode ==
    IF cfg.climateType = "both" THEN "auto"
    ELSE IF cfg.climateType = "cool" THEN "cool"
    ELSE "heat"

----------------------------------------------------------------------------
(* The node's methods, as functions of the node's fields *)

\* a TypeError leaves the handler; the fields written so far stay written
Throw(n) == [n EXCEPT !.threw = TRUE]

\* the observers of one handler run start afresh
Begin(n) == [n EXCEPT !.threw = FALSE, !.targetTemp = Undefined, !.updates = 0]

\* isConnected still true when exactly keepAliveMs has passed
isConnectedInclusive(n) == now - n.lastSend <= cfg.keepAliveMs

isConnected(n) == now - n.lastSend < cfg.keepAliveMs

isHeating(n) == n.lastAction = "heating"

isCooling(n) == n.lastAction = "cooling"

\* nothing in the node writes the context store, so the stored value is undefined
getStoredValue(key, defaultValue) == defaultValue

getHeatSetpoint == getStoredValue("heatSetpoint", cfg.defaultHeatSetpoint)

getCoolSetpoint == getStoredValue("coolSetpoint", cfg.defaultCoolSetpoint)

\* calculateAction with inclusive comparisons
calculateActionInclusive(currentTemp, targetTemp) ==
    LET heatSetpoint == parseFloat(getHeatSetpoint)
        coolSetpoint == parseFloat(getCoolSetpoint)
    IN  IF Le(currentTemp, Minus(targetTemp, cfg.tolerance))
        THEN IF Le(currentTemp, Minus(heatSetpoint, cfg.tolerance)) THEN "heating" ELSE "none"
        ELSE IF Ge(currentTemp, Plus(targetTemp, cfg.tolerance))
        THEN IF Ge(currentTemp, Plus(coolSetpoint, cfg.tolerance)) THEN "cooling" ELSE "none"
        ELSE "none"

calculateAction(currentTemp, targetTemp) ==
    LET heatSetpoint == parseFloat(getHeatSetpoint)
        coolSetpoint == parseFloat(getCoolSetpoint)
    IN  IF Lt(currentTemp, Minus(targetTemp, cfg.tolerance))
        THEN IF heatSetpoint # Null /\ Lt(currentTemp, Minus(heatSetpoint, cfg.tolerance))
             THEN "heating"
             ELSE "none"
        ELSE IF Gt(currentTemp, Plus(targetTemp, cfg.tolerance))
        THEN IF coolSetpoint # Null /\ Gt(currentTemp, Plus(coolSetpoint, cfg.tolerance))
             THEN "cooling"
             ELSE "none"
        ELSE "none"

\* the value initSetpoint captures once, at construction
defaultSetpoint == IF defaultMode = "heat" THEN getHeatSetpoint ELSE getCoolSetpoint

\* node.setpoint.set; node.setpoint does not exist when hasSetpoint is false
SetpointSet(n, setpoint) ==
    IF n.threw THEN n
    ELSE IF ~hasSetpoint THEN Throw(n)
    ELSE IF hasSetpoint /\ setpoint # Null
    THEN LET newSetpoint == parseFloat(setpoint)
         IN  IF ~isNaN(newSetpoint)
                /\ newSetpoint.v >= cfg.minTemp
                /\ newSetpoint.v <= cfg.maxTemp
             THEN [n EXCEPT !.setpoint = [current |-> newSetpoint, lastChange |-> now]]
             ELSE n
    ELSE n

\* setpoint.get without the validity window
SetpointGetNoExpiry(n) ==
    IF hasSetpoint /\ n.setpoint.lastChange # 0 THEN n.setpoint.current ELSE defaultSetpoint

\* node.setpoint.get, where node.setpoint exists
SetpointGet(n) ==
    IF hasSetpoint
       /\ n.setpoint.lastChange # 0
       /\ now - n.setpoint.lastChange <= cfg.tempValidMs
    THEN n.setpoint.current
    ELSE defaultSetpoint

OverrideSet(n, state) ==
    IF n.threw THEN n
    ELSE [n EXCEPT !.override = [current |-> IF state = "true" THEN "true" ELSE "false"]]

OverrideGet(n) == n.override.current = "true"

\* node.mode.get
ModeGet(n) == IF n.lastChange # "null" THEN n.lastChange ELSE defaultMode

\* updateTemperature accepting a jump once swapDelayMs has elapsed, not only after it
updateTemperatureAtDelay(n, temp) ==
    IF n.threw THEN n
    ELSE IF temp # Null
            /\ Ge(temp, Num(cfg.minTemp))
            /\ Le(temp, Num(cfg.maxTemp))
            /\ (n.lastTemp = Null
                \/ Le(AbsDiff(temp, n.lastTemp), Num(cfg.tolerance))
                \/ now - n.lastTempTime >= cfg.swapDelayMs)
    THEN [n EXCEPT !.lastTemp = temp, !.lastTempTime = now]
    ELSE n

updateTemperature(n, temp) ==
    IF n.threw THEN n
    ELSE IF temp # Null
            /\ Ge(temp, Num(cfg.minTemp))
            /\ Le(temp, Num(cfg.maxTemp))
            /\ (n.lastTemp = Null
                \/ Le(AbsDiff(temp, n.lastTemp), Num(cfg.tolerance))
                \/ now - n.lastTempTime > cfg.swapDelayMs)
    THEN [n EXCEPT !.lastTemp = temp, !.lastTempTime = now]
    ELSE n

updateAction(n) ==
    IF n.threw THEN n
    ELSE IF n.lastTemp = Null THEN [n EXCEPT !.lastAction = "none"]
    ELSE IF ~hasSetpoint THEN Throw(n)
    ELSE LET targetTemp == parseFloat(SetpointGet(n))
         IN  [n EXCEPT !.lastAction = calculateAction(n.lastTemp, targetTemp),
                       !.targetTemp = targetTemp]

\* updateStatus changes no field of the node; node.send delivers the update message
updateNode(n) == IF n.threw THEN n ELSE [n EXCEPT !.updates = @ + 1]

sendStatusUpdate(n) ==
    IF n.threw THEN n
    ELSE IF ~cfg.advertise \/ ~cfg.broker \/ ~cfg.topic THEN n
    ELSE [n EXCEPT !.lastSend = now]

\* handleModeChange without the load of the heat or cool setpoint
handleModeChangeNoLoad(n, newMode) ==
    IF n.threw THEN n
    ELSE LET n1 == [n EXCEPT !.lastChange = newMode,
                             !.lastHeatTime = 0,
                             !.lastCoolTime = 0,
                             !.heatRunStart = 0,
                             !.coolRunStart = 0]
         IN  IF newMode = "off"
             THEN updateNode(OverrideSet(SetpointSet([n1 EXCEPT !.lastAction = "none"], Null), "false"))
             ELSE updateNode(updateAction(n1))

\* handleModeChange leaving the run timestamps as they were
handleModeChangeKeepingRuns(n, newMode) ==
    IF n.threw THEN n
    ELSE LET n1 == [n EXCEPT !.lastChange = newMode]
         IN  IF newMode = "off"
             THEN updateNode(OverrideSet(SetpointSet([n1 EXCEPT !.lastAction = "none"], Null), "false"))
             ELSE LET n2 == IF defaultMode = "auto" /\ newMode = "heat"
                            THEN SetpointSet(n1, getHeatSetpoint)
                            ELSE IF defaultMode = "auto" /\ newMode = "cool"
                            THEN SetpointSet(n1, getCoolSetpoint)
                            ELSE n1
                  IN  updateNode(updateAction(n2))

handleModeChange(n, newMode) ==
    IF n.threw THEN n
    ELSE LET n0 == [n EXCEPT !.lastChange = newMode,
                             !.lastHeatTime = 0,
                             !.lastCoolTime = 0]
                 n1 == [n0 EXCEPT !.heatRunStart = 0, !.coolRunStart = 0]
         IN  IF newMode = "off"
             THEN updateNode(OverrideSet(SetpointSet([n1 EXCEPT !.lastAction = "none"], Null), "false"))
             ELSE LET n2 == IF defaultMode = "auto" /\ newMode = "heat"
                            THEN SetpointSet(n1, getHeatSetpoint)
                            ELSE IF defaultMode = "auto" /\ newMode = "cool"
                            THEN SetpointSet(n1, getCoolSetpoint)
                            ELSE n1
                  IN  updateNode(updateAction(n2))

\* mode.set followed by a status publish
ModeSetPublishing(n, mode) ==
    sendStatusUpdate(handleModeChange(n, IF mode = "off" THEN "off"
                                         ELSE IF mode = "heat" /\ hasHeating THEN "heat"
                                         ELSE IF mode = "cool" /\ hasCooling THEN "cool"
                                         ELSE "auto"))

ModeSet(n, mode) ==
    IF mode = "off" THEN handleModeChange(n, "off")
    ELSE IF mode = "heat" /\ hasHeating THEN handleModeChange(n, "heat")
    ELSE IF mode = "cool" /\ hasCooling THEN handleModeChange(n, "cool")
    ELSE handleModeChange(n, "auto")

\* action.set without the capability tests
ActionSetUnchecked(n, action) ==
    IF action = "heating" THEN handleModeChange(n, "heat")
    ELSE IF action = "cooling" THEN handleModeChange(n, "cool")
    ELSE IF action = "none" THEN handleModeChange(n, "auto")
    ELSE n

ActionSet(n, action) ==
    IF action = "heating" /\ hasHeating THEN handleModeChange(n, "heat")
    ELSE IF action = "cooling" /\ hasCooling THEN handleModeChange(n, "cool")
    ELSE IF action = "none" THEN handleModeChange(n, "auto")
    ELSE n

----------------------------------------------------------------------------
(* Inbound messages *)

NoMode == "absent"
ModeValues == {"off", "heat", "cool", "auto"}
TemperatureValues == {Num(160), Num(300)}
SetpointValues == {Num(200), NumStr(210), Num(300), Text, Null}
OverrideValues == {"true", "false", "yes"}
ActionValues == {"heating", "cooling", "none", "idle"}

Present(m) ==
    (IF m.payload # NoMode THEN 1 ELSE 0) + (IF m.mode # NoMode THEN 1 ELSE 0)
    + (IF m.temperature # NoField THEN 1 ELSE 0) + (IF m.setpoint # NoField THEN 1 ELSE 0)
    + (IF m.override # NoMode THEN 1 ELSE 0) + (IF m.action # NoMode THEN 1 ELSE 0)

Messages ==
    {m \in [payload : ModeValues \cup {NoMode},
            mode : ModeValues \cup {NoMode},
            temperature : TemperatureValues \cup {NoField},
            setpoint : SetpointValues \cup {NoField},
            override : OverrideValues \cup {NoMode},
            action : ActionValues \cup {NoMode}] :
        Present(m) >= 1 /\ Present(m) <= MaxFields}

EmptyMessage ==
    [payload |-> NoMode, mode |-> NoMode, temperature |-> NoField,
     setpoint |-> NoField, override |-> NoMode, action |-> NoMode]

\* the 'input' event handler
OnInput(n, msg) ==
    LET n0 == Begin(n)
        n1 == IF msg.payload # NoMode THEN ModeSet(n0, msg.payload) ELSE n0
        n2 == IF msg.mode # NoMode THEN ModeSet(n1, msg.mode) ELSE n1
        n3 == IF msg.temperature # NoField THEN SetpointSet(n2, msg.temperature) ELSE n2
        n4 == IF msg.setpoint # NoField THEN SetpointSet(n3, msg.setpoint) ELSE n3
        n5 == IF msg.override # NoMode THEN OverrideSet(n4, msg.override) ELSE n4
    IN  IF msg.action # NoMode THEN ActionSet(n5, msg.action) ELSE n5

MqttTopics == {"mode/set", "temperature/set", "status"}
MqttModePayloads == {"off", "heat", "cool", "auto"}
MqttSetpointPayloads == {NumStr(200), Text}

\* the 'mqttIn' event handler; the payload is always a string
OnMqttIn(n, topic, modePayload, setpointPayload) ==
    LET n0 == Begin(n)
        n1 == IF topic = "mode/set" THEN ModeSet(n0, modePayload) ELSE n0
    IN  IF topic = "temperature/set" THEN SetpointSet(n1, setpointPayload) ELSE n1

\* the setInterval callback of initUpdateLoop
\* the timer callback without its startup and connection guard
OnTickUnguarded(n) == sendStatusUpdate(updateNode(updateAction(Begin(n))))

OnTick(n) ==
    LET n0 == Begin(n)
    IN  IF n0.starting \/ ~isConnected(n0)
        THEN [n0 EXCEPT !.heatRunStart = 0, !.coolRunStart = 0]
        ELSE LET u  == updateAction(n0)
                 n1 == [u EXCEPT
                          !.heatRunStart = IF u.threw \/ ~isHeating(u) THEN 0
                                           ELSE IF @ = 0 THEN now ELSE @,
                          !.coolRunStart = IF u.threw \/ ~isCooling(u) THEN 0
                                           ELSE IF @ = 0 THEN now ELSE @]
                 n2 == updateTemperature(n1, parseFloat(n1.lastTemp))
                 n3 == IF n2.threw THEN n2
                       ELSE IF isHeating(n2) THEN [n2 EXCEPT !.lastHeatTime = now]
                       ELSE IF isCooling(n2) THEN [n2 EXCEPT !.lastCoolTime = now]
                       ELSE n2
                 n4 == IF n3.threw THEN n3
                       ELSE IF isHeating(n3) /\ n3.lastHeatTime # 0
                               /\ now - n3.lastHeatTime >= cfg.boostDurationMs
                       THEN [n3 EXCEPT !.lastAction = "none"]
                       ELSE IF isCooling(n3) /\ n3.lastCoolTime # 0
                               /\ now - n3.lastCoolTime >= cfg.boostDurationMs
                       THEN [n3 EXCEPT !.lastAction = "none"]
                       ELSE n3
             IN  sendStatusUpdate(updateNode(n4))

----------------------------------------------------------------------------
(* The state machine *)

InitNode ==
    [starting |-> FALSE,
     lastChange |-> "null",
     lastAction |-> "null",
     lastTemp |-> Null,
     lastTempTime |-> 0,
     lastHeatTime |-> 0,
     lastCoolTime |-> 0,
     lastSend |-> 0,
     setpoint |-> [current |-> Undefined, lastChange |-> 0],
     override |-> [current |-> "undefined"],
     \* observers, not fields of the node:
     targetTemp |-> Undefined,   \* the target updateAction passed in the handler that just ran
     updates |-> 0,              \* update messages the handler that just ran delivered
     extTempTime |-> 0,          \* when a reading offered from outside was last accepted
     heatRunStart |-> 0,         \* first of the consecutive ticks that computed 'heating'
     coolRunStart |-> 0,         \* first of the consecutive ticks that computed 'cooling'
     threw |-> FALSE]            \* the handler that just ran raised a TypeError

NoRet ==
    [op |-> "none", arg |-> Null, arg2 |-> Null, result |-> "null", before |-> <<0, 0>>]

Init ==
    /\ cfg \in Configs
    /\ node = InitNode
    /\ now = Epoch
    /\ nextTick = Epoch + cfg.cycleDelayMs
    /\ scenario = "start"
    /\ ret = NoRet

ModeHeatMessage == [EmptyMessage EXCEPT !.mode = "heat"]
Temperature16Message == [EmptyMessage EXCEPT !.temperature = Num(160)]

ScenarioAfter(msg) ==
    IF scenario = "start" /\ msg = ModeHeatMessage THEN "modeHeat"
    ELSE IF scenario = "modeHeat" /\ msg = Temperature16Message THEN "fed16"
    ELSE "other"

Input(msg) ==
    /\ node' = OnInput(node, msg)
    /\ scenario' = ScenarioAfter(msg)
    /\ ret' = NoRet
    /\ UNCHANGED <<cfg, now, nextTick>>

MqttIn(topic, modePayload, setpointPayload) ==
    /\ cfg.advertise /\ cfg.broker /\ cfg.topic
    /\ node' = OnMqttIn(node, topic, modePayload, setpointPayload)
    /\ scenario' = "other"
    /\ ret' = NoRet
    /\ UNCHANGED <<cfg, now, nextTick>>

Tick ==
    /\ now = nextTick
    /\ node' = OnTick(node)
    /\ nextTick' = now + cfg.cycleDelayMs
    /\ ret' = NoRet
    /\ UNCHANGED <<cfg, now, scenario>>

Elapse ==
    /\ now < nextTick
    /\ now < Epoch + MaxTime
    /\ now' = now + 1
    /\ node' = Begin(node)
    /\ ret' = NoRet
    /\ UNCHANGED <<cfg, nextTick, scenario>>

Next ==
    \/ \E msg \in Messages : Input(msg)
    \/ \E topic \in MqttTopics, mp \in MqttModePayloads, sp \in MqttSetpointPayloads :
          MqttIn(topic, mp, sp)
    \/ Tick
    \/ Elapse

Spec == Init /\ [][Next]_vars

----------------------------------------------------------------------------
(* The node driven through its methods.  The methods are properties of    *)
(* the node object; a caller holding the node (a test, another node) can    *)
(* invoke them, and the timer keeps running.  Each specification below     *)
(* drives one group of methods.                                             *)

ApiTemperatures == {Num(160), Num(162), Num(240), Num(300), Null, NaN}

\* before: the run timestamps the node held when the call was made
Call(op, arg, arg2, result) ==
    [op |-> op, arg |-> arg, arg2 |-> arg2, result |-> result,
     before |-> <<node.lastHeatTime, node.lastCoolTime>>]

\* node.updateTemperature(temp)
CallUpdateTemperature(temp) ==
    /\ LET n == updateTemperature(Begin(node), temp)
       IN  node' = IF n.lastTemp = temp /\ n.lastTempTime = now
                   THEN [n EXCEPT !.extTempTime = now]
                   ELSE n
    /\ ret' = Call("updateTemperature", temp, Null, "null")
    /\ scenario' = "other"
    /\ UNCHANGED <<cfg, now, nextTick>>

\* node.sendStatusUpdate()
CallSendStatusUpdate ==
    /\ node' = sendStatusUpdate(Begin(node))
    /\ ret' = Call("sendStatusUpdate", Null, Null, "null")
    /\ scenario' = "other"
    /\ UNCHANGED <<cfg, now, nextTick>>

\* node.mode.set(mode)
CallModeSet(mode) ==
    /\ node' = ModeSet(Begin(node), mode)
    /\ ret' = Call("mode.set", Null, Null, mode)
    /\ scenario' = "other"
    /\ UNCHANGED <<cfg, now, nextTick>>

\* node.setpoint.set(setpoint)
CallSetpointSet(setpoint) ==
    /\ node' = SetpointSet(Begin(node), setpoint)
    /\ ret' = Call("setpoint.set", setpoint, Null, "null")
    /\ scenario' = "other"
    /\ UNCHANGED <<cfg, now, nextTick>>

\* node.action.set(action)
CallActionSet(action) ==
    /\ ret' = Call("action.set", Null, Null, action)
    /\ node' = ActionSet(Begin(node), action)
    /\ scenario' = "other"
    /\ UNCHANGED <<cfg, now, nextTick>>

InitAPI == Init /\ cfg.advertise

\* the temperature tracker and the evaluation cycle
NextTracker ==
    \/ \E temp \in ApiTemperatures : CallUpdateTemperature(temp)
    \/ CallSendStatusUpdate
    \/ Tick
    \/ Elapse

SpecTracker == InitAPI /\ [][NextTracker]_vars

SetpointTemperatures == {Num(160), Num(240)}

\* the setpoint store, the mode store and the action recomputed on a mode change
NextSetpoint ==
    \/ \E temp \in SetpointTemperatures : CallUpdateTemperature(temp)
    \/ \E mode \in ModeValues : CallModeSet(mode)
    \/ \E setpoint \in SetpointValues : CallSetpointSet(setpoint)
    \/ Tick
    \/ Elapse

SpecSetpoint == InitAPI /\ [][NextSetpoint]_vars

\* the mode store and the action accessor, with the evaluation cycle running
NextMode ==
    \/ \E temp \in SetpointTemperatures : CallUpdateTemperature(temp)
    \/ CallSendStatusUpdate
    \/ \E mode \in ModeValues : CallModeSet(mode)
    \/ \E action \in ActionValues : CallActionSet(action)
    \/ Tick
    \/ Elapse

SpecMode == InitAPI /\ [][NextMode]_vars

\* a timer slower than the keep-alive
SlowCycleDelayMs == 4

\* the liveness tracker: status publishes, the timer and the clock
InitConnection ==
    /\ cfg \in {[c EXCEPT !.cycleDelayMs = d] :
                   c \in Configs, d \in {CycleDelayMs, SlowCycleDelayMs}}
    /\ node = InitNode
    /\ now = Epoch
    /\ nextTick = Epoch + cfg.cycleDelayMs
    /\ scenario = "start"
    /\ ret = NoRet

NextConnection ==
    \/ CallSendStatusUpdate
    \/ Tick
    \/ Elapse

SpecConnection == InitConnection /\ [][NextConnection]_vars

\* the handlers and the timer, with status publishes also made directly
NextInbound ==
    \/ \E msg \in Messages : Input(msg)
    \/ \E topic \in MqttTopics, mp \in MqttModePayloads, sp \in MqttSetpointPayloads :
          MqttIn(topic, mp, sp)
    \/ Tick
    \/ Elapse
    \/ CallSendStatusUpdate

SpecInbound == InitAPI /\ [][NextInbound]_vars

(* The node running without end.  Every comparison the code makes on a     *)
(* timestamp is on its age, now minus the timestamp, against a window       *)
(* shorter than MaxTime.  Once the clock has reached Epoch + MaxTime, one   *)
(* more unit of time therefore moves every timestamp one unit into the     *)
(* past instead of moving now forward; a timestamp already older than      *)
(* every window stays where it is, and a null one stays null.              *)
Older(t) == IF t = 0 THEN 0 ELSE IF t - 1 < Epoch - 1 THEN Epoch - 1 ELSE t - 1

ElapseBeyond ==
    /\ now < nextTick
    /\ now = Epoch + MaxTime
    /\ nextTick' = nextTick - 1
    /\ node' = [Begin(node) EXCEPT
                   !.lastTempTime = Older(@),
                   !.lastHeatTime = Older(@),
                   !.lastCoolTime = Older(@),
                   !.lastSend = Older(@),
                   !.setpoint.lastChange = Older(@),
                   !.extTempTime = Older(@),
                   !.heatRunStart = Older(@),
                   !.coolRunStart = Older(@)]
    /\ ret' = NoRet
    /\ UNCHANGED <<cfg, now, scenario>>

\* time passing
Pass == Elapse \/ ElapseBeyond

NextLive ==
    \/ \E msg \in Messages : Input(msg)
    \/ \E topic \in MqttTopics, mp \in MqttModePayloads, sp \in MqttSetpointPayloads :
          MqttIn(topic, mp, sp)
    \/ Tick
    \/ Elapse
    \/ ElapseBeyond

\* time passes and the interval timer fires, whatever messages arrive
SpecLive == InitAPI /\ [][NextLive]_vars /\ WF_vars(Pass) /\ WF_vars(Tick)

----------------------------------------------------------------------------
(* calculateAction on its own, over a range of configurations and arguments *)

CalcTemps == {Num(v) : v \in 0..MaxCalcTemp}

InitCalc ==
    /\ cfg \in {[Config("both", FALSE) EXCEPT !.tolerance = tol,
                                             !.defaultHeatSetpoint = h,
                                             !.defaultCoolSetpoint = c] :
                   tol \in 0..MaxCalcTolerance, h \in CalcTemps, c \in CalcTemps}
    /\ node = InitNode
    /\ now = Epoch
    /\ nextTick = Epoch + cfg.cycleDelayMs
    /\ scenario = "start"
    /\ ret = NoRet

\* node.calculateAction(currentTemp, targetTemp)
CallCalculateAction(currentTemp, targetTemp) ==
    /\ ret' = Call("calculateAction", currentTemp, targetTemp,
                   calculateAction(currentTemp, targetTemp))
    /\ UNCHANGED <<cfg, node, now, nextTick, scenario>>

NextCalc == \E currentTemp \in CalcTemps, targetTemp \in CalcTemps :
                CallCalculateAction(currentTemp, targetTemp)

SpecCalc == InitCalc /\ [][NextCalc]_vars

----------------------------------------------------------------------------
(* The claims *)

OffMessages == {[EmptyMessage EXCEPT !.mode = "off"], [EmptyMessage EXCEPT !.payload = "off"]}
TemperatureMessages == {[EmptyMessage EXCEPT !.temperature = t] : t \in TemperatureValues}
SetpointMessages == {[EmptyMessage EXCEPT !.setpoint = v] : v \in SetpointValues}

InRange(x) == Ge(x, Num(cfg.minTemp)) /\ Le(x, Num(cfg.maxTemp))

\* the setpoint store holds a value that is within its validity window
SetpointIsSet(n) ==
    n.setpoint.lastChange # 0 /\ now - n.setpoint.lastChange <= cfg.tempValidMs

\* the setpoint store holds a value set more than tempValid ago
SetpointIsStale(n) ==
    n.setpoint.lastChange # 0 /\ now - n.setpoint.lastChange > cfg.tempValidMs

\* C1: in every configuration and from every state, right after an inbound
\* mode 'off' command the last action is 'none' and the override reads false.
C1_OffGivesNoneAndNoOverride ==
    [][\A msg \in OffMessages :
          Input(msg) => node'.lastAction = "none" /\ ~OverrideGet(node')]_vars

\* C2: if the setpoint store holds a valid value before an inbound mode 'off'
\* command, then right after it the store is unset and get() returns the default.
C2_OffClearsSetpoint ==
    [][\A msg \in OffMessages :
          (Input(msg) /\ SetpointIsSet(node))
              => ~SetpointIsSet(node') /\ SetpointGet(node') = defaultSetpoint]_vars

\* C3: for integer temperatures and tolerance >= 0, calculateAction returns
\* 'heating' iff currentTemp < targetTemp - tolerance and currentTemp <
\* heatSetpoint - tolerance, 'cooling' iff currentTemp > targetTemp + tolerance
\* and currentTemp > coolSetpoint + tolerance, and 'none' otherwise.
C3_CalculateActionIff ==
    ret.op = "calculateAction" =>
        LET cur == ret.arg.v
            target == ret.arg2.v
            heat == cfg.defaultHeatSetpoint.v
            cool == cfg.defaultCoolSetpoint.v
            tol == cfg.tolerance
            needHeat == cur < target - tol /\ cur < heat - tol
            needCool == cur > target + tol /\ cur > cool + tol
        IN  /\ (ret.result = "heating") <=> needHeat
            /\ (ret.result = "cooling") <=> needCool
            /\ (ret.result = "none") <=> (~needHeat /\ ~needCool)

\* calculateAction answered 'none' although the target band asked for heat:
\* the heat setpoint rail did not.
C3_Witness ==
    /\ ret.op = "calculateAction"
    /\ ret.result = "none"
    /\ cfg.tolerance > 0
    /\ ret.arg.v < ret.arg2.v - cfg.tolerance
    /\ ret.arg.v = cfg.defaultHeatSetpoint.v - cfg.tolerance

\* C4: on a heat-only controller (tolerance 0.2, range 5..25, heat setpoint 18),
\* after the commands mode 'heat' and then temperature 16.0, an evaluation tick
\* leaves the action 'heating'.
C4_HeatScenarioHeats ==
    [][(Tick /\ scenario = "fed16" /\ cfg.climateType = "heat")
          => node'.lastAction = "heating"]_vars

\* C5: a tick at which heating (or cooling) has been the computed action on
\* consecutive ticks spanning at least boostDuration leaves the action 'none'.
C5_RunLengthCutoff ==
    [][(/\ Tick
        /\ \/ (node'.heatRunStart # 0 /\ now - node'.heatRunStart >= cfg.boostDurationMs)
           \/ (node'.coolRunStart # 0 /\ now - node'.coolRunStart >= cfg.boostDurationMs))
          => node'.lastAction = "none"]_vars

\* C6: an inbound command whose temperature field is within [minTemp, maxTemp],
\* arriving when no temperature is recorded, records that temperature and
\* leaves the setpoint store as it was.
C6_TemperatureFieldRecorded ==
    [][\A msg \in TemperatureMessages :
          (Input(msg) /\ InRange(msg.temperature) /\ node.lastTemp = Null)
              => node'.lastTemp = msg.temperature /\ node'.setpoint = node.setpoint]_vars

\* C7: updateTemperature leaves the recorded temperature and its timestamp
\* unchanged for a null, NaN or out-of-range reading and for an in-range reading
\* further than tolerance from the recorded one offered no more than swapDelay
\* after the last accepted reading; any other reading is recorded with the
\* current time.
C7_UpdateTemperatureFilter ==
    [][\A temp \in ApiTemperatures :
          CallUpdateTemperature(temp) =>
              LET far == node.lastTemp # Null
                         /\ Gt(AbsDiff(temp, node.lastTemp), Num(cfg.tolerance))
                  waited == now - node.lastTempTime > cfg.swapDelayMs
              IN  IF ~InRange(temp) \/ (far /\ ~waited)
                  THEN /\ node'.lastTemp = node.lastTemp
                       /\ node'.lastTempTime = node.lastTempTime
                  ELSE /\ node'.lastTemp = temp
                       /\ node'.lastTempTime = now]_vars

\* updateTemperature(24.0) has just been called exactly swapDelay after 16.0 was
\* recorded, and 16.0 is still the recorded temperature.
C7_Witness ==
    /\ ret.op = "updateTemperature"
    /\ ret.arg = Num(240)
    /\ node.lastTemp = Num(160)
    /\ now - node.lastTempTime = cfg.swapDelayMs

\* C8: an in-range reading further than tolerance from the recorded temperature,
\* offered more than swapDelay after the last reading accepted from outside, is
\* accepted, whatever evaluation ticks ran in between.
C8_SwingAcceptedAfterGrace ==
    [][\A temp \in ApiTemperatures :
          (/\ CallUpdateTemperature(temp)
           /\ InRange(temp)
           /\ node.lastTemp # Null
           /\ Gt(AbsDiff(temp, node.lastTemp), Num(cfg.tolerance))
           /\ node.extTempTime # 0
           /\ now - node.extTempTime > cfg.swapDelayMs)
              => node'.lastTemp = temp]_vars

\* C9: an inbound setpoint command whose value does not parse to a number within
\* [minTemp, maxTemp] leaves the stored setpoint and its set-time unchanged and
\* raises no error.
C9_BadSetpointDropped ==
    [][\A msg \in SetpointMessages :
          (Input(msg) /\ ~InRange(parseFloat(msg.setpoint)))
              => node'.setpoint = node.setpoint /\ ~node'.threw]_vars

\* C10: while the stored setpoint was set more than tempValid ago, get() returns
\* the default, and a target that updateAction has just passed to
\* calculateAction is the default, not the stored value.
C10_StaleSetpointNotSurfaced ==
    SetpointIsStale(node) =>
        /\ SetpointGet(node) = defaultSetpoint
        /\ node.targetTemp # Undefined => node.targetTemp = parseFloat(defaultSetpoint)

\* the stored setpoint 20.0 is stale and updateAction has just passed a target
C10_Witness ==
    /\ SetpointIsStale(node)
    /\ node.setpoint.current = Num(200)
    /\ node.targetTemp # Undefined
    /\ node.lastTemp # Null

\* the fields the node object itself holds
Fields(n) ==
    <<n.starting, n.lastChange, n.lastAction, n.lastTemp, n.lastTempTime,
      n.lastHeatTime, n.lastCoolTime, n.lastSend, n.setpoint, n.override>>

ModeMessage(mode) == [EmptyMessage EXCEPT !.mode = mode]

\* the mode mode.set stores the request under its own name
ModeSupported(mode) ==
    \/ mode = "off"
    \/ mode = "heat" /\ hasHeating
    \/ mode = "cool" /\ hasCooling
    \/ mode = "auto"

\* the action requests action.set turns into a mode change
ActionAccepted(action) ==
    \/ action = "heating" /\ hasHeating
    \/ action = "cooling" /\ hasCooling
    \/ action = "none"

\* C11: whenever the setpoint store is unset or expired, setpoint.get returns
\* the heat setpoint while the mode is 'heat' and the cool setpoint while the
\* mode is 'cool', in every configuration that has a setpoint.
C11_DefaultFollowsMode ==
    hasSetpoint /\ ~SetpointIsSet(node) =>
        /\ ModeGet(node) = "heat" => SetpointGet(node) = getHeatSetpoint
        /\ ModeGet(node) = "cool" => SetpointGet(node) = getCoolSetpoint

\* C12: isConnected is true exactly when a status publish has happened and
\* less than keepAlive has passed since the last one; it is false at exactly
\* keepAlive and false when no publish ever happened.
C12_ConnectedIffRecentPublish ==
    isConnected(node) <=>
        node.lastSend # 0 /\ now - node.lastSend < cfg.keepAliveMs

\* exactly keepAlive after the last publish the node is not connected
C12_Witness ==
    node.lastSend # 0 /\ now - node.lastSend = cfg.keepAliveMs /\ ~isConnected(node)

\* C13: an inbound mode 'heat' without heating capability, or 'cool' without
\* cooling capability, changes no field of the node and delivers no update.
C13_UnsupportedModeDropped ==
    [][\A mode \in {"heat", "cool"} :
          Input(ModeMessage(mode)) /\ ~ModeSupported(mode)
              => Fields(node') = Fields(node) /\ node'.updates = 0]_vars

\* C14: right after any mode.set call, and any action.set call that is turned
\* into a mode change, lastHeatTime and lastCoolTime are both null.
C14_ModeChangeResetsRuns ==
    ret.op = "mode.set" \/ (ret.op = "action.set" /\ ActionAccepted(ret.result))
        => node.lastHeatTime = 0 /\ node.lastCoolTime = 0

\* a heat run had been stamped when mode.set('cool') was called, and is gone
C14_Witness ==
    /\ ret.op = "mode.set"
    /\ ret.result = "cool"
    /\ ret.before[1] # 0
    /\ node.lastChange = "cool"
    /\ node.lastHeatTime = 0
    /\ node.lastCoolTime = 0

\* C15: every inbound mode command other than 'off' that is accepted delivers
\* an update and, with advertising, broker and topic configured, stamps
\* lastSend with a status publish made by that mode change.
C15_ModeChangePublishes ==
    [][\A mode \in {"heat", "cool", "auto"} :
          Input(ModeMessage(mode)) /\ ModeSupported(mode)
              => /\ node'.updates >= 1
                 /\ cfg.advertise /\ cfg.broker /\ cfg.topic => node'.lastSend = now]_vars

\* C16: every tick, whatever the connection state, and every accepted inbound
\* mode command delivers the update message.
C16_UpdateOnTickAndModeChange ==
    [][/\ Tick => node'.updates >= 1
       /\ \A mode \in ModeValues :
             Input(ModeMessage(mode)) /\ ModeSupported(mode) => node'.updates >= 1]_vars

\* C17: in every configuration no inbound command and no tick raises an error.
C17_NoHandlerRaises == ~node.threw

\* C18: action.set('heating') sets mode 'heat' when heating is available,
\* 'cooling' sets 'cool' when cooling is available, 'none' sets 'auto'; any
\* other request changes no field of the node.
C18_ActionSetTranslation ==
    [][\A action \in ActionValues :
          CallActionSet(action) =>
              IF action = "heating" /\ hasHeating THEN node'.lastChange = "heat"
              ELSE IF action = "cooling" /\ hasCooling THEN node'.lastChange = "cool"
              ELSE IF action = "none" THEN node'.lastChange = "auto"
              ELSE Fields(node') = Fields(node) /\ node'.updates = 0]_vars

\* a 'cooling' request on a node without cooling left the mode at 'heat'
C18_Witness ==
    /\ ret.op = "action.set"
    /\ ret.result = "cooling"
    /\ ~hasCooling
    /\ node.lastChange = "heat"

\* C19: every step that changes lastSend is a status publish, made by the
\* tick or by a direct sendStatusUpdate; the handling of an inbound message
\* or of a transport message is neither, so it leaves lastSend as it was.
C19_LastSendOnlyByPublish ==
    [][node'.lastSend # node.lastSend =>
          Tick \/ CallSendStatusUpdate]_vars

\* a setpoint was stored by a command handled after the last publish
C19_Witness ==
    node.lastSend # 0 /\ node.setpoint.lastChange > node.lastSend

\* C20: a tick that finds the node starting or not connected changes no field
\* of the node: lastAction, lastTemp and its time, the run timestamps and
\* lastSend stay as they were, and nothing is published or delivered.
C20_DisconnectedTickChangesNothing ==
    [][Tick /\ (node.starting \/ ~isConnected(node))
          => Fields(node') = Fields(node) /\ node'.updates = 0]_vars

\* a tick has just run with a temperature recorded and no action computed
C20_Witness ==
    /\ now > Epoch
    /\ nextTick = now + cfg.cycleDelayMs
    /\ ret = NoRet
    /\ ~isConnected(node)
    /\ node.lastTemp # Null
    /\ node.lastAction = "null"

\* C21: on a controller with heating and cooling both enabled, right after
\* mode.set('heat') setpoint.get returns the heat setpoint (when it lies in
\* [minTemp, maxTemp]) and right after mode.set('cool') the cool setpoint; the
\* action that mode change recomputed was computed against that target.
C21_DualModeLoadsSetpoint ==
    defaultMode = "auto" /\ ret.op = "mode.set" =>
        /\ ret.result = "heat" /\ InRange(parseFloat(getHeatSetpoint)) =>
              /\ SetpointGet(node) = getHeatSetpoint
              /\ node.lastTemp # Null =>
                    /\ node.targetTemp = parseFloat(getHeatSetpoint)
                    /\ node.lastAction =
                          calculateAction(node.lastTemp, parseFloat(getHeatSetpoint))
        /\ ret.result = "cool" /\ InRange(parseFloat(getCoolSetpoint)) =>
              /\ SetpointGet(node) = getCoolSetpoint
              /\ node.lastTemp # Null =>
                    /\ node.targetTemp = parseFloat(getCoolSetpoint)
                    /\ node.lastAction =
                          calculateAction(node.lastTemp, parseFloat(getCoolSetpoint))

\* mode.set('heat') has just replaced a setpoint stored earlier in the same
\* instant and recomputed the action from a recorded temperature
C21_Witness ==
    /\ defaultMode = "auto"
    /\ ret.op = "mode.set"
    /\ ret.result = "heat"
    /\ node.lastTemp # Null
    /\ node.setpoint = [current |-> getHeatSetpoint, lastChange |-> now]
    /\ node.targetTemp = parseFloat(getHeatSetpoint)

\* C22: with advertising, broker and topic configured, whatever messages
\* arrive, the node eventually reports connected: some tick passes the guard,
\* recomputes the action and publishes a status.
C22_EventuallyConnected ==
    cfg.advertise /\ cfg.broker /\ cfg.topic => <>isConnected(node)

\* C23: in every reachable state in which the mode is 'off' the last action is
\* 'none', whatever ticks and temperature updates have happened since.
C23_OffKeepsActionNone ==
    ModeGet(node) = "off" => node.lastAction = "none"

\* C24: in every reachable state the last action is 'cooling' only if cooling
\* is available and the mode is not 'heat', and 'heating' only if heating is
\* available and the mode is not 'cool'.
C24_ActionRespectsCapabilitiesAndMode ==
    /\ node.lastAction = "cooling" => hasCooling /\ ModeGet(node) # "heat"
    /\ node.lastAction = "heating" => hasHeating /\ ModeGet(node) # "cool"

====
